---- MODULE Spec2Model ----
(***************************************************************************)
(* Model of icinga2/icinga.go: the WebClient's write path (CreateObject,   *)
(* UpdateObject and the result reconciler handleResults) and the           *)
(* MockClient store built by NewMockClient.                                *)
(*                                                                         *)
(* Go strings are TLA+ strings, concatenated with \o.  A Go error value is *)
(* a record [kind, msg]; the nil error is Nil.                             *)
(***************************************************************************)
EXTENDS Integers, Sequences, FiniteSets, TLC

VARIABLES
    s,             \* the WebClient built by New (its URL field)
    wire,          \* what the remote end answers: both decoded bodies, the
                   \* status line, and the transport error
    op,            \* the WebClient method last called ("none" before any call)
    path,          \* its path argument
    sent,          \* the transport requests that call issued, in order
    resultReport,  \* handleResults' local of that name when it returned
    ret,           \* the error that call returned
    Hostgroups,    \* MockClient.Hostgroups
    Hosts,         \* MockClient.Hosts
    Services,      \* MockClient.Services
    Actions,       \* MockClient.Actions
    mutex,         \* MockClient.mutex: TRUE when locked
    pc,            \* per caller: position inside a MockClient method
    req,           \* per caller: the method and arguments of its call
    out            \* per caller: what the call is about to return

webVars  == <<s, wire, op, path, sent, resultReport, ret>>
mockVars == <<Hostgroups, Hosts, Services, Actions, mutex, pc, req, out>>
vars     == <<s, wire, op, path, sent, resultReport, ret,
              Hostgroups, Hosts, Services, Actions, mutex, pc, req, out>>

----------------------------------------------------------------------------
(* Bounds *)

MaxResults == 2      \* longest "results" list the remote end sends
MaxErrmsg == 1       \* longest error-channel list the remote end sends

----------------------------------------------------------------------------
(* Go values *)

Nil == [kind |-> "nil", msg |-> ""]

\* fmt.Errorf: an error whose Error() is the formatted text.
Errorf(text) == [kind |-> "errorString", msg |-> text]

\* Errors the transport can hand back (connection, TLS).
TransportErrors ==
    { [kind |-> "transport", msg |-> "dial tcp: i/o timeout"],
      [kind |-> "transport", msg |-> "x509: certificate signed by unknown authority"] }

SeqsUpTo(S, n) == UNION { [1..k -> S] : k \in 0..n }

\* strings.Join
RECURSIVE Join(_, _)
Join(elems, sep) ==
    IF elems = <<>> THEN ""
    ELSE IF Len(elems) = 1 THEN elems[1]
    ELSE elems[1] \o sep \o Join(Tail(elems), sep)

\* strings.TrimRight on a string held as a sequence of pieces: drops the
\* trailing pieces that are the cut character.
RECURSIVE TrimRight(_, _)
TrimRight(pieces, cut) ==
    IF pieces # <<>> /\ pieces[Len(pieces)] = cut
    THEN TrimRight(SubSeq(pieces, 1, Len(pieces) - 1), cut)
    ELSE pieces

Digit(d) == <<"0", "1", "2", "3", "4", "5", "6", "7", "8", "9">>[d + 1]

\* Decimal text of a non-negative integer.
RECURSIVE Itoa(_)
Itoa(n) == IF n < 10 THEN Digit(n) ELSE Itoa(n \div 10) \o Digit(n % 10)

----------------------------------------------------------------------------
(* Results: the items of a decoded response body.  Code is a float64 in    *)
(* the source and is compared with 400.0; the API sends whole HTTP status  *)
(* values, so Code is an integer here.  Name and Type are never read.      *)

Item(code, status, errors) == [Code |-> code, Status |-> status, Errors |-> errors]

Items ==
    { Item(200, "", <<>>),
      Item(399, "warn", <<"ignored">>),
      Item(400, "", <<>>),
      Item(404, "missing", <<"no", "such object">>),
      Item(500, "error", <<"bad name">>) }

\* Status lines the remote end answers with: code and reason phrase.
StatusLines ==
    { <<200, "OK">>, <<399, "Custom">>, <<400, "Bad Request">>,
      <<500, "Internal Server Error">> }

Wires ==
    { [results |-> r, errmsg |-> e, StatusCode |-> st[1], Reason |-> st[2], err |-> x] :
        r \in SeqsUpTo(Items, MaxResults), e \in SeqsUpTo(Items, MaxErrmsg),
        st \in StatusLines, x \in {Nil} \cup TransportErrors }

\* resp.HttpResponse(): the http.Response of the answer.  Status is the
\* status line after the protocol version, e.g. "200 OK".
HttpResponse(w) ==
    [StatusCode |-> w.StatusCode, Status |-> Itoa(w.StatusCode) \o " " \o w.Reason]

Paths == {"/hosts/x", "/services/x!ping"}

\* WebClient.URL as configured, in pieces so that New can trim it.
ConfiguredURLs ==
    { <<"https://icinga:5665">>,
      <<"https://icinga:5665", "/">>,
      <<"https://icinga:5665", "/", "/">> }

\* New: strips the trailing slashes of the URL.
New(url) == [URL |-> Join(TrimRight(url, "/"), "")]

----------------------------------------------------------------------------
(* handleResults *)

\* appendFailures with the comparison written > instead of >=.
RECURSIVE appendFailures_above400(_, _)
appendFailures_above400(report, list) ==
    IF list = <<>> THEN report
    ELSE LET r == Head(list) IN
         appendFailures_above400(
             IF r.Code > 400
             THEN report \o r.Status \o " " \o Join(r.Errors, " ") \o " "
             ELSE report,
             Tail(list))

\* One range loop of handleResults: appends every item with Code >= 400.
RECURSIVE appendFailures(_, _)
appendFailures(report, list) ==
    IF list = <<>> THEN report
    ELSE LET r == Head(list) IN
         appendFailures(
             IF r.Code >= 400
             THEN report \o r.Status \o " " \o Join(r.Errors, " ") \o " "
             ELSE report,
             Tail(list))

\* accumulate with the two loops in the other order.
accumulate_errmsgFirst(results, errmsg) ==
    appendFailures(appendFailures("", errmsg), results)

\* resultReport after both loops: results first, then errmsg.
accumulate(results, errmsg) == appendFailures(appendFailures("", results), errmsg)

\* The value of the local resultReport when handleResults returns.
reportAtReturn(results, errmsg, oerr) ==
    IF oerr # Nil THEN "" ELSE accumulate(results, errmsg)

\* handleResults looking at oerr only after the status and the items.
handleResults_oerrLast(typ, p, resp, results, errmsg, oerr) ==
    LET report == accumulate(results, errmsg) IN
    IF resp.StatusCode >= 400
    THEN Errorf(typ \o " " \o p \o " : " \o resp.Status \o " - " \o report)
    ELSE IF report # ""
    THEN Errorf(typ \o " " \o p \o " : " \o report \o "\n")
    ELSE oerr

\* handleResults testing the report before the status.
handleResults_reportFirst(typ, p, resp, results, errmsg, oerr) ==
    IF oerr # Nil THEN oerr
    ELSE LET report == accumulate(results, errmsg) IN
         IF report # ""
         THEN Errorf(typ \o " " \o p \o " : " \o report \o "\n")
         ELSE IF resp.StatusCode >= 400
         THEN Errorf(typ \o " " \o p \o " : " \o resp.Status \o " - " \o report)
         ELSE oerr

\* handleResults printing StatusCode where the code prints Status.
handleResults_codeOnly(typ, p, resp, results, errmsg, oerr) ==
    IF oerr # Nil THEN oerr
    ELSE LET report == accumulate(results, errmsg) IN
         IF resp.StatusCode >= 400
         THEN Errorf(typ \o " " \o p \o " : " \o Itoa(resp.StatusCode) \o " - " \o report)
         ELSE IF report # ""
         THEN Errorf(typ \o " " \o p \o " : " \o report \o "\n")
         ELSE oerr

handleResults(typ, p, resp, results, errmsg, oerr) ==
    IF oerr # Nil THEN oerr
    ELSE LET report == accumulate(results, errmsg) IN
         IF resp.StatusCode >= 400
         THEN Errorf(typ \o " " \o p \o " : " \o resp.Status \o " - " \o report)
         ELSE IF report # ""
         THEN Errorf(typ \o " " \o p \o " : " \o report \o "\n")
         ELSE oerr

----------------------------------------------------------------------------
(* WebClient operations *)

Request(method, url) == [method |-> method, url |-> url]

CreateObject(p) ==
    /\ op' = "CreateObject"
    /\ path' = p
    /\ sent' = <<Request("PUT", s.URL \o "/v1/objects" \o p)>>
    /\ resultReport' = reportAtReturn(wire.results, wire.errmsg, wire.err)
    /\ ret' = handleResults("create", p, HttpResponse(wire),
                            wire.results, wire.errmsg, wire.err)
    /\ UNCHANGED <<s, wire>>
    /\ UNCHANGED mockVars

\* UpdateObject handing the reconciler CreateObject's kind.
UpdateObject_createKind(p) ==
    /\ op' = "UpdateObject"
    /\ path' = p
    /\ sent' = <<[method |-> "POST", url |-> s.URL \o "/v1/objects" \o p]>>
    /\ resultReport' = reportAtReturn(wire.results, wire.errmsg, wire.err)
    /\ ret' = handleResults("create", p, HttpResponse(wire),
                            wire.results, wire.errmsg, wire.err)
    /\ UNCHANGED <<s, wire>>
    /\ UNCHANGED <<Hostgroups, Hosts, Services, Actions, mutex, pc, req, out>>

UpdateObject(p) ==
    /\ op' = "UpdateObject"
    /\ path' = p
    /\ sent' = <<Request("POST", s.URL \o "/v1/objects" \o p)>>
    /\ resultReport' = reportAtReturn(wire.results, wire.errmsg, wire.err)
    /\ ret' = handleResults("update", p, HttpResponse(wire),
                            wire.results, wire.errmsg, wire.err)
    /\ UNCHANGED <<s, wire>>
    /\ UNCHANGED mockVars

----------------------------------------------------------------------------
(* MockClient: the struct and NewMockClient are in icinga.go; the methods  *)
(* follow the documented contract of the mock (one lock held for the whole *)
(* body, plain key-existence errors).                                      *)

NumCallers == 2      \* concurrent callers of the mock
MaxLog == 1          \* actions the log holds in all

Callers == 1..NumCallers

Mappings == {"Hostgroups", "Hosts", "Services"}

\* The names callers use in each mapping.
Keys(m) ==
    CASE m = "Hostgroups" -> {"linux"}
      [] m = "Hosts" -> {"web1", "web2"}
      [] m = "Services" -> {"web1!ping"}

Attrs == {"v1", "v2"}

\* A HostGroup, Host or Service: its key and the rest of its fields.
Objects(m) == [Name : Keys(m), Attr : Attrs]

CheckResults == {"OK"}

ErrNotFound == [kind |-> "NotFound", msg |-> "not found"]

ErrAlreadyExists == [kind |-> "AlreadyExists", msg |-> "already exists"]

EmptyMap == [k \in {} |-> 0]

insert(f, k, v) == [x \in DOMAIN f \cup {k} |-> IF x = k THEN v ELSE f[x]]

remove(f, k) == [x \in DOMAIN f \ {k} |-> f[x]]

\* NewMockClient leaving the mutex locked.
NewMockClient_locked ==
    [Hostgroups |-> EmptyMap, Hosts |-> EmptyMap, Services |-> EmptyMap,
     Actions |-> EmptyMap, mutex |-> TRUE]

\* NewMockClient seeding the Hosts map with an entry.
NewMockClient_seeded ==
    [Hostgroups |-> EmptyMap,
     Hosts |-> [k \in {"web1"} |-> [Name |-> "web1", Attr |-> "v1"]],
     Services |-> EmptyMap, Actions |-> EmptyMap, mutex |-> FALSE]

\* The MockClient NewMockClient returns: four empty maps, mutex unlocked.
NewMockClient ==
    [Hostgroups |-> EmptyMap, Hosts |-> EmptyMap, Services |-> EmptyMap,
     Actions |-> EmptyMap, mutex |-> FALSE]

\* A call: the method family, the mapping it works on, the key, and the rest
\* of the argument (the object's other fields, or the check result).
callOf(method, m, k, arg) == [method |-> method, mapping |-> m, key |-> k, arg |-> arg]

NoCall == callOf("none", "none", "", "")

\* What a call returns: the error and the objects handed back.
Result(e, v) == [err |-> e, val |-> v]

NoResult == Result(Nil, {})

MockInit ==
    /\ Hostgroups = NewMockClient.Hostgroups
    /\ Hosts = NewMockClient.Hosts
    /\ Services = NewMockClient.Services
    /\ Actions = NewMockClient.Actions
    /\ mutex = NewMockClient.mutex
    /\ pc = [c \in Callers |-> "idle"]
    /\ req = [c \in Callers |-> NoCall]
    /\ out = [c \in Callers |-> NoResult]

mapping(m) ==
    CASE m = "Hostgroups" -> Hostgroups
      [] m = "Hosts" -> Hosts
      [] m = "Services" -> Services

\* Leaves mapping m as f and the other two as they are.
store(m, f) ==
    /\ Hostgroups' = IF m = "Hostgroups" THEN f ELSE Hostgroups
    /\ Hosts' = IF m = "Hosts" THEN f ELSE Hosts
    /\ Services' = IF m = "Services" THEN f ELSE Services

logged == LET RECURSIVE sum(_)
              sum(S) == IF S = {} THEN 0
                        ELSE LET k == CHOOSE x \in S : TRUE
                             IN Len(Actions[k]) + sum(S \ {k})
          IN sum(DOMAIN Actions)

\* A caller enters a method and reaches c.mutex.Lock().
Call(c) ==
    /\ pc[c] = "idle"
    /\ pc' = [pc EXCEPT ![c] = "lock"]
    /\ UNCHANGED <<Hostgroups, Hosts, Services, Actions, mutex, req, out>>
    /\ UNCHANGED webVars

\* c.mutex.Lock() returns.
Lock(c) ==
    /\ pc[c] = "lock"
    /\ mutex = FALSE
    /\ mutex' = TRUE
    /\ pc' = [pc EXCEPT ![c] = "body"]
    /\ UNCHANGED <<Hostgroups, Hosts, Services, Actions, req, out>>
    /\ UNCHANGED webVars

\* The body ran to its return statement; the deferred Unlock is still due.
returns(c, call, result) ==
    /\ pc' = [pc EXCEPT ![c] = "defer"]
    /\ req' = [req EXCEPT ![c] = call]
    /\ out' = [out EXCEPT ![c] = result]
    /\ UNCHANGED mutex
    /\ UNCHANGED webVars

Get(c, m, k) ==
    /\ pc[c] = "body"
    /\ returns(c, callOf("Get", m, k, ""),
               IF k \in DOMAIN mapping(m)
               THEN Result(Nil, {mapping(m)[k]})
               ELSE Result(ErrNotFound, {}))
    /\ UNCHANGED <<Hostgroups, Hosts, Services, Actions>>

\* Create overwriting an entry that is already there, then reporting it.
Create_overwrites(c, m, o) ==
    /\ pc[c] = "body"
    /\ pc' = [pc EXCEPT ![c] = "defer"]
    /\ req' = [req EXCEPT ![c] =
                  callOf("Create", m, o.Name, o.Attr)]
    /\ out' = [out EXCEPT ![c] =
                  IF o.Name \in DOMAIN mapping(m)
                  THEN [err |-> ErrAlreadyExists, val |-> {}]
                  ELSE [err |-> Nil, val |-> {}]]
    /\ Hostgroups' = IF m = "Hostgroups" THEN insert(Hostgroups, o.Name, o) ELSE Hostgroups
    /\ Hosts' = IF m = "Hosts" THEN insert(Hosts, o.Name, o) ELSE Hosts
    /\ Services' = IF m = "Services" THEN insert(Services, o.Name, o) ELSE Services
    /\ UNCHANGED <<Actions, mutex>>
    /\ UNCHANGED <<s, wire, op, path, sent, resultReport, ret>>

Create(c, m, o) ==
    /\ pc[c] = "body"
    /\ returns(c, callOf("Create", m, o.Name, o.Attr),
               IF o.Name \in DOMAIN mapping(m)
               THEN Result(ErrAlreadyExists, {})
               ELSE Result(Nil, {}))
    /\ store(m, IF o.Name \in DOMAIN mapping(m)
                THEN mapping(m)
                ELSE insert(mapping(m), o.Name, o))
    /\ UNCHANGED Actions

Update(c, m, o) ==
    /\ pc[c] = "body"
    /\ returns(c, callOf("Update", m, o.Name, o.Attr),
               IF o.Name \in DOMAIN mapping(m)
               THEN Result(Nil, {})
               ELSE Result(ErrNotFound, {}))
    /\ store(m, IF o.Name \in DOMAIN mapping(m)
                THEN insert(mapping(m), o.Name, o)
                ELSE mapping(m))
    /\ UNCHANGED Actions

Delete(c, m, k) ==
    /\ pc[c] = "body"
    /\ returns(c, callOf("Delete", m, k, ""),
               IF k \in DOMAIN mapping(m)
               THEN Result(Nil, {})
               ELSE Result(ErrNotFound, {}))
    /\ store(m, IF k \in DOMAIN mapping(m)
                THEN remove(mapping(m), k)
                ELSE mapping(m))
    /\ UNCHANGED Actions

\* The values of the mapping; their order is not part of the result.
List(c, m) ==
    /\ pc[c] = "body"
    /\ returns(c, callOf("List", m, "", ""),
               Result(Nil, { mapping(m)[k] : k \in DOMAIN mapping(m) }))
    /\ UNCHANGED <<Hostgroups, Hosts, Services, Actions>>

ProcessCheckResult(c, k, a) ==
    /\ pc[c] = "body"
    /\ logged < MaxLog
    /\ returns(c, callOf("ProcessCheckResult", "Actions", k, a),
               Result(Nil, {}))
    /\ Actions' = insert(Actions, k,
                         Append(IF k \in DOMAIN Actions THEN Actions[k] ELSE <<>>, a))
    /\ UNCHANGED <<Hostgroups, Hosts, Services>>

Body(c) ==
    \/ \E m \in Mappings : \E k \in Keys(m) : Get(c, m, k)
    \/ \E m \in Mappings : \E o \in Objects(m) : Create(c, m, o)
    \/ \E m \in Mappings : \E o \in Objects(m) : Update(c, m, o)
    \/ \E m \in Mappings : \E k \in Keys(m) : Delete(c, m, k)
    \/ \E m \in Mappings : List(c, m)
    \/ \E k \in Keys("Services"), a \in CheckResults : ProcessCheckResult(c, k, a)

\* The deferred c.mutex.Unlock() runs and the method returns to its caller.
Unlock(c) ==
    /\ pc[c] = "defer"
    /\ mutex' = FALSE
    /\ pc' = [pc EXCEPT ![c] = "idle"]
    /\ req' = [req EXCEPT ![c] = NoCall]
    /\ out' = [out EXCEPT ![c] = NoResult]
    /\ UNCHANGED <<Hostgroups, Hosts, Services, Actions>>
    /\ UNCHANGED webVars

----------------------------------------------------------------------------
(* Specification of the WebClient write path *)

Init ==
    /\ s \in { New(u) : u \in ConfiguredURLs }
    /\ wire \in Wires
    /\ op = "none"
    /\ path = ""
    /\ sent = <<>>
    /\ resultReport = ""
    /\ ret = Nil
    /\ MockInit

Next ==
    \/ \E p \in Paths : CreateObject(p)
    \/ \E p \in Paths : UpdateObject(p)

Spec == Init /\ [][Next]_vars

----------------------------------------------------------------------------
(* What the claims speak of, stated without the code's loops *)

called == op # "none"

\* The kind the operation hands to the reconciler.
kind == IF op = "CreateObject" THEN "create" ELSE "update"

failing(r) == r.Code >= 400

anyFailing(list) == \E i \in 1..Len(list) : failing(list[i])

\* "<errors joined by single spaces>", built from the right.
spaced(errors) ==
    LET RECURSIVE upTo(_)
        upTo(n) == IF n = 0 THEN ""
                   ELSE IF n = 1 THEN errors[1]
                   ELSE upTo(n - 1) \o " " \o errors[n]
    IN upTo(Len(errors))

piece(r) == r.Status \o " " \o spaced(r.Errors) \o " "

\* The pieces of the failing items of results, then of errmsg, in order.
expected(w) ==
    LET bad == SelectSeq(w.results, failing) \o SelectSeq(w.errmsg, failing)
        RECURSIVE cat(_)
        cat(n) == IF n = 0 THEN "" ELSE cat(n - 1) \o piece(bad[n])
    IN cat(Len(bad))

head == kind \o " " \o path \o " : "

statusText == HttpResponse(wire).Status

----------------------------------------------------------------------------
(* Claims about handleResults *)

\* C1: with no transport error, the call returns nil exactly when no item of
\* either list has code >= 400 and the transport status is below 400.
C1_SuccessIff ==
    (called /\ wire.err = Nil) =>
        (ret = Nil <=> /\ ~anyFailing(wire.results)
                       /\ ~anyFailing(wire.errmsg)
                       /\ wire.StatusCode < 400)

\* A failing item with code 400, empty status and no errors, under transport
\* status 200, made the call fail.
C1_Witness ==
    /\ called /\ wire.err = Nil /\ wire.StatusCode = 200
    /\ wire.results = <<Item(400, "", <<>>)>> /\ wire.errmsg = <<>>
    /\ ret # Nil

\* C2: a transport error is returned as it is, whatever the bodies and the
\* status are, and nothing is accumulated.
C2_TransportErrorPassesThrough ==
    (called /\ wire.err # Nil) => (ret = wire.err /\ resultReport = "")

\* A transport error came with failing items and status 500 and was returned.
C2_Witness ==
    /\ called /\ wire.err \in TransportErrors /\ wire.StatusCode = 500
    /\ anyFailing(wire.results) /\ anyFailing(wire.errmsg)
    /\ ret = wire.err

\* C3: with no transport error and status < 400, a non-empty accumulated
\* message gives exactly "<kind> <target> : <accumulated>".
C3_ExactItemMessage ==
    (called /\ wire.err = Nil /\ wire.StatusCode < 400 /\ expected(wire) # "") =>
        ret.msg = head \o expected(wire)

\* C4: with no transport error and status >= 400 the message is exactly
\* "<kind> <target> : <transportStatusText> - <accumulated>", also when the
\* accumulated message is empty and also when items failed.
C4_StatusMessage ==
    (called /\ wire.err = Nil /\ wire.StatusCode >= 400) =>
        ret = Errorf(head \o statusText \o " - " \o expected(wire))

\* Status 400 together with a failing item in each list.
C4_Witness ==
    /\ called /\ wire.err = Nil /\ wire.StatusCode = 400
    /\ anyFailing(wire.results) /\ anyFailing(wire.errmsg)
    /\ ret.msg = head \o "400 Bad Request - " \o expected(wire)

\* C5: the accumulated message is the concatenation of "<status> <errors
\* joined by spaces> " over the items with code >= 400 and no others, those
\* of results first, then those of errmsg, each list in its order; a failure
\* message carries it whole.
C5_Accumulated ==
    (called /\ wire.err = Nil) =>
        /\ resultReport = expected(wire)
        /\ ret # Nil =>
             \E pre \in {head, head \o statusText \o " - "}, post \in {"", "\n"} :
                 ret.msg = pre \o resultReport \o post

\* Two failing items in results around an item below 400 that carries an
\* error string, and a failing item in errmsg.
C5_Witness ==
    /\ called /\ wire.err = Nil
    /\ wire.results = <<Item(404, "missing", <<"no", "such object">>),
                        Item(500, "error", <<"bad name">>)>>
    /\ wire.errmsg = <<Item(400, "", <<>>)>>
    /\ resultReport = "missing no such object error bad name   "

\* C6: no items, status 500 "Internal Server Error", create of /hosts/x:
\* the message is "create /hosts/x : 500 Internal Server Error - ".
C6_Scenario ==
    ( /\ op = "CreateObject" /\ path = "/hosts/x" /\ wire.err = Nil
      /\ wire.results = <<>> /\ ~anyFailing(wire.errmsg)
      /\ wire.StatusCode = 500 /\ wire.Reason = "Internal Server Error" ) =>
        ret.msg = "create /hosts/x : 500 Internal Server Error - "

C6_Witness ==
    /\ op = "CreateObject" /\ path = "/hosts/x" /\ wire.err = Nil
    /\ wire.results = <<>> /\ wire.errmsg = <<>>
    /\ wire.StatusCode = 500 /\ wire.Reason = "Internal Server Error"
    /\ ret.kind = "errorString"

\* C10: CreateObject and UpdateObject each issue one request, PUT
\* respectively POST to <base-url>/v1/objects<path>, and return what the
\* reconciler makes of that one answer, under the kind of the operation.
C10_OneCallVerdictUnchanged ==
    called =>
        /\ sent = <<Request(IF op = "CreateObject" THEN "PUT" ELSE "POST",
                            "https://icinga:5665/v1/objects" \o path)>>
        /\ ret = handleResults(kind, path, HttpResponse(wire),
                               wire.results, wire.errmsg, wire.err)
        /\ (ret # Nil /\ wire.err = Nil) =>
             \E rest \in {statusText \o " - " \o expected(wire),
                          expected(wire) \o "\n"} :
                 ret.msg = kind \o " " \o path \o " : " \o rest

\* An update failed on an item and says "update".
C10_Witness ==
    /\ op = "UpdateObject" /\ path = "/services/x!ping" /\ wire.err = Nil
    /\ wire.StatusCode = 200 /\ wire.results = <<Item(500, "error", <<"bad name">>)>>
    /\ wire.errmsg = <<>>
    /\ sent = <<Request("POST", "https://icinga:5665/v1/objects/services/x!ping")>>
    /\ ret.msg = "update /services/x!ping : error bad name \n"

----------------------------------------------------------------------------
(* Specification of the MockClient *)

WebIdle ==
    /\ s = New(<<"https://icinga:5665">>)
    /\ wire = [results |-> <<>>, errmsg |-> <<>>, StatusCode |-> 200,
               Reason |-> "OK", err |-> Nil]
    /\ op = "none"
    /\ path = ""
    /\ sent = <<>>
    /\ resultReport = ""
    /\ ret = Nil

MockNext ==
    \E c \in Callers :
        \/ Call(c)
        \/ Lock(c)
        \/ Body(c)
        \/ Unlock(c)

MockStart == WebIdle /\ MockInit

MockSpec == MockStart /\ [][MockNext]_vars

\* sync.Mutex hands the lock to a waiter that keeps failing to get it
\* (starvation mode), so a waiting Lock is strongly fair; a goroutine inside
\* the method keeps running.
MockFairSpec ==
    /\ MockSpec
    /\ \A c \in Callers :
           SF_vars(Lock(c)) /\ WF_vars(Body(c)) /\ WF_vars(Unlock(c))

----------------------------------------------------------------------------
(* Claims about the MockClient *)

\* Caller c's method body runs in this step.
bodyStep(c) == pc[c] = "body" /\ pc'[c] = "defer"

inside == { c \in Callers : pc[c] \in {"body", "defer"} }

\* Mapping m after the step.
mappingAfter(m) ==
    CASE m = "Hostgroups" -> Hostgroups'
      [] m = "Hosts" -> Hosts'
      [] m = "Services" -> Services'

storeUnchanged ==
    <<Hostgroups, Hosts, Services, Actions>>' = <<Hostgroups, Hosts, Services, Actions>>

\* C7: a failing call leaves host groups, hosts, services and the action
\* log as they were; Create of a present key fails with AlreadyExists;
\* Update, Delete and Get of an absent key fail with NotFound.
C7_FailuresChangeNothing ==
    [][\A c \in Callers : bodyStep(c) =>
          LET call == req'[c]
              res  == out'[c]
          IN /\ res.err # Nil => storeUnchanged
             /\ (call.method = "Create" /\ call.key \in DOMAIN mapping(call.mapping))
                   => (res.err = ErrAlreadyExists /\ storeUnchanged)
             /\ (call.method \in {"Update", "Delete", "Get"}
                    /\ call.key \notin DOMAIN mapping(call.mapping))
                   => (res.err = ErrNotFound /\ storeUnchanged)
      ]_vars

\* A Create of a present host with other fields was refused and the stored
\* host is still the old one.
C7_Witness ==
    \E c \in Callers :
        /\ pc[c] = "defer" /\ req[c].method = "Create" /\ req[c].mapping = "Hosts"
        /\ out[c].err = ErrAlreadyExists
        /\ req[c].key \in DOMAIN Hosts
        /\ Hosts[req[c].key].Attr # req[c].arg

\* C8: the store starts empty; a Get returns what is stored under the key
\* or NotFound; a successful Create adds the key with the given value, a
\* successful Update replaces the value, a successful Delete removes the
\* key, a Create of an absent key succeeds; no other key and no other
\* mapping changes.
C8_RoundTrip ==
    /\ Hostgroups = EmptyMap /\ Hosts = EmptyMap /\ Services = EmptyMap
    /\ Actions = EmptyMap
    /\ [][\A c \in Callers : (bodyStep(c) /\ req'[c].mapping \in Mappings) =>
             LET call  == req'[c]
                 res   == out'[c]
                 k     == call.key
                 old   == mapping(call.mapping)
                 new   == mappingAfter(call.mapping)
                 rest(D) == \A x \in D \ {k} : new[x] = old[x]
             IN /\ \A n \in Mappings \ {call.mapping} : mapping(n)' = mapping(n)
                /\ Actions' = Actions
                /\ call.method = "Get" =>
                      /\ new = old
                      /\ res = IF k \in DOMAIN old THEN [err |-> Nil, val |-> {old[k]}]
                               ELSE [err |-> ErrNotFound, val |-> {}]
                /\ (call.method = "Create" /\ k \notin DOMAIN old) => res.err = Nil
                /\ (call.method = "Create" /\ res.err = Nil) =>
                      /\ DOMAIN new = DOMAIN old \cup {k}
                      /\ new[k] = [Name |-> k, Attr |-> call.arg]
                      /\ rest(DOMAIN old)
                /\ (call.method = "Update" /\ res.err = Nil) =>
                      /\ k \in DOMAIN old
                      /\ DOMAIN new = DOMAIN old
                      /\ new[k] = [Name |-> k, Attr |-> call.arg]
                      /\ rest(DOMAIN old)
                /\ (call.method = "Delete" /\ res.err = Nil) =>
                      /\ k \in DOMAIN old
                      /\ DOMAIN new = DOMAIN old \ {k}
                      /\ rest(DOMAIN new)
         ]_vars

\* A Get returned the updated value of web1 while web2 and the services
\* map hold other entries, the host groups none.
C8_Witness ==
    \E c \in Callers :
        /\ pc[c] = "defer" /\ req[c].method = "Get" /\ req[c].mapping = "Hosts"
        /\ req[c].key = "web1"
        /\ out[c] = [err |-> Nil, val |-> {[Name |-> "web1", Attr |-> "v2"]}]
        /\ "web2" \in DOMAIN Hosts /\ Hosts["web2"].Attr = "v1"
        /\ DOMAIN Services = {"web1!ping"} /\ Hostgroups = EmptyMap

\* C9: at most one caller is inside a method body and the mutex is locked
\* exactly then; a return, also with an error, unlocks it; a caller waiting
\* for the lock gets through and returns.
C9_LockDiscipline ==
    /\ [](Cardinality(inside) <= 1 /\ (mutex <=> inside # {}))
    /\ [][\A c \in Callers : (pc[c] = "defer" /\ pc'[c] = "idle") =>
             (mutex /\ ~mutex')]_vars
    /\ \A c \in Callers : (pc[c] = "lock") ~> (pc[c] = "idle")

\* One caller is about to return an error while every other caller waits
\* for the lock.
C9_Witness ==
    \E c \in Callers :
        /\ pc[c] = "defer" /\ out[c].err = ErrNotFound /\ mutex
        /\ \A d \in Callers \ {c} : pc[d] = "lock"

====
